---- MODULE Spec2Model ----
(***************************************************************************)
(* Model of server.js: the in-memory session store, the session reset and  *)
(* health endpoints and the NDJSON streaming chat handler.                 *)
(*                                                                         *)
(* The Node event loop runs one callback at a time, so every action below  *)
(* is one synchronous run of handler code between two await points.  The   *)
(* Gemini SDK (model construction, sendMessageStream, the chunk stream and *)
(* the response object) is the environment: its outcomes are inputs.       *)
(***************************************************************************)
EXTENDS Integers, Sequences, FiniteSets

\* ----- bounds of the model -----
MaxRequests == 2   \* chat requests received in one behaviour
MaxIncr == 2       \* increments one adapter stream produces at most
MaxOver == 3       \* entries beyond 2 * MAX_TURNS in a history given to clampTurns

\* ----- program constants -----
MAX_TURNS == 50

Reqs == {1, 2}   \* handlers of /api/chat that can run at the same time
Serial == {1}    \* the handler of a caller that sends one request after another
NoObj == 0

\* ----- JavaScript values of the request body -----
JsUndefinedId == [type |-> "undefined", val |-> ""]
JsId(s) == [type |-> "string", val |-> s]
JsUndefinedMsg == [type |-> "undefined", val |-> <<>>]
JsMsg(s) == [type |-> "string", val |-> s]

SessionIds == {"s1", "s2"}
Addrs == 1..(Cardinality(SessionIds) + Cardinality(Reqs))
BodyIds == {JsUndefinedId, JsId("")} \cup {JsId(s) : s \in SessionIds}
Hi == <<" ", "h">>
\* request bodies of /api/chat: one for every way through the validation
Bodies ==
    {[sessionId |-> JsUndefinedId, message |-> JsUndefinedMsg],
     [sessionId |-> JsId(""), message |-> JsMsg(Hi)],
     [sessionId |-> JsId("s1"), message |-> JsUndefinedMsg],
     [sessionId |-> JsId("s1"), message |-> JsMsg(<<>>)],
     [sessionId |-> JsId("s2"), message |-> JsMsg(<<" ">>)]}
    \cup {[sessionId |-> JsId(s), message |-> JsMsg(Hi)] : s \in SessionIds}

\* !sessionId : undefined and the empty string are falsy
Falsy(v) == v.type = "undefined" \/ v.val = ""

RECURSIVE TrimStart(_)
TrimStart(s) == IF s # <<>> /\ Head(s) = " " THEN TrimStart(Tail(s)) ELSE s

RECURSIVE TrimEnd(_)
TrimEnd(s) == IF s # <<>> /\ s[Len(s)] = " " THEN TrimEnd(SubSeq(s, 1, Len(s) - 1)) ELSE s

\* no trimming
Trim_none(s) == s

\* String.prototype.trim
Trim(s) == TrimEnd(TrimStart(s))

\* typeof message !== 'string' || message.trim() === ''
BadMessage(m) == m.type # "string" \/ Trim(m.val) = <<>>

\* ----- history -----
userMessage(text) == [role |-> "user", text |-> text]
assistantMessage(text) == [role |-> "model", text |-> text]

\* the bound counted in entries instead of user+model pairs
clampTurns_entries(history) ==
    LET over == Len(history) - MAX_TURNS
    IN  IF over > 0 THEN SubSeq(history, over + 1, Len(history)) ELSE history

\* slice(over + 1): one entry too many is dropped
clampTurns_dropsOneMore(history) ==
    IF Len(history) - MAX_TURNS * 2 > 0
    THEN SubSeq(history, Len(history) - MAX_TURNS * 2 + 2, Len(history))
    ELSE history

\* the bound taken one turn pair too wide
clampTurns_looser(history) ==
    IF Len(history) - (MAX_TURNS + 1) * 2 > 0
    THEN SubSeq(history, Len(history) - (MAX_TURNS + 1) * 2 + 1, Len(history))
    ELSE history

\* no truncation at all
clampTurns_none(history) == history

\* slice(0, MAX_TURNS * 2): the oldest entries survive
clampTurns_keepsOldest(history) ==
    IF Len(history) - MAX_TURNS * 2 > 0
    THEN SubSeq(history, 1, MAX_TURNS * 2)
    ELSE history

clampTurns(history) ==
    LET over == Len(history) - MAX_TURNS * 2
    IN  IF over > 0 THEN SubSeq(history, over + 1, Len(history)) ELSE history

\* A history of n entries as n/2 committed turns leave it
RECURSIVE Filled(_)
Filled(n) ==
    IF n = 0 THEN <<>>
    ELSE Filled(n - 2) \o <<userMessage(Hi), assistantMessage(<<"a">>)>>


\* ----- adapter streams -----
ChunkTexts == {<<>>, <<"a">>}

\* result.response.text : missing, throwing, or returning a text
Finals == {[kind |-> "absent", text |-> <<>>], [kind |-> "throws", text |-> <<>>],
           [kind |-> "text", text |-> <<>>], [kind |-> "text", text |-> <<"F">>]}

\* ----- responses -----
Frame(type, text) == [type |-> type, text |-> text]
NoResp == [status |-> 0, body |-> "none", frames |-> <<>>, ended |-> FALSE]

\* res.status(code).json({ error })
JsonError(code) == [status |-> code, body |-> "error", frames |-> <<>>, ended |-> TRUE]

\* res.write(JSON.stringify(frame) + '\n') : the first write sends the 200 head
Write(resp, frame) ==
    [resp EXCEPT !.status = IF @ = 0 THEN 200 ELSE @,
                 !.body = "ndjson",
                 !.frames = Append(@, frame)]

\* res.end()
End(resp) == [resp EXCEPT !.ended = TRUE]

\* the done frame without res.end()
Finalize_noEnd(resp) == Write(resp, Frame("done", <<>>))

\* res.end() without the done frame
Finalize_endOnly(resp) == End(resp)

\* lines 155-156: the done frame, then res.end()
Finalize(resp) == End(Write(resp, Frame("done", <<>>)))

VARIABLES
    API_KEY,       \* process.env.GEMINI_API_KEY || ''
    sessionStore,  \* the Map: session id -> session object (NoObj: no entry)
    heap,          \* session object -> its history array
    reqs,          \* one record per running handler of /api/chat
    nreq,          \* chat requests received so far
    last           \* the exchange the last step completed, as its caller saw it

vars == <<API_KEY, sessionStore, heap, reqs, nreq, last>>

\* A handler's locals, its response, and what the caller and the adapter saw:
\*   taken  the increments the loop has taken from the stream, in order
\*   left   the increments the stream still held when the loop was left
\*   cut    increments taken and frames written when 'close' was observed
\*   pre    the history the store held for the id when the request arrived
\*   hist   the history of the handler's session object when it returned
\*   overlap  another request or a reset for the same id ran meanwhile
\*   how    the way the streaming step ended ("none": it was never reached)
\*   slot   the handler activation that served the request
\*   context  the history given to startChat at line 115
\*   final  what result.response.text gave at line 139 ("none": not evaluated)
\*   peers  the most requests for the same id in flight at once, this one included
\*   others  message and reply of each commit other handlers made to the same
\*           session object meanwhile, in commit order
\*   wasReset  a reset for the same id ran while the request was in flight
\*   hung   the stream will yield nothing more and will not end
IdleReq ==
    [pc |-> "idle",
     body |-> [sessionId |-> JsUndefinedId, message |-> JsUndefinedMsg],
     session |-> NoObj,
     aborted |-> FALSE,
     aggregated |-> <<>>,
     taken |-> <<>>,
     left |-> 0,
     cut |-> [taken |-> 0, frames |-> 0],
     resp |-> NoResp,
     pre |-> <<>>,
     hist |-> <<>>,
     overlap |-> FALSE,
     how |-> "none",
     slot |-> 0,
     context |-> <<>>,
     final |-> [kind |-> "none", text |-> <<>>],
     peers |-> 0,
     others |-> <<>>,
     wasReset |-> FALSE,
     hung |-> FALSE]

NoLast == [op |-> "none", req |-> IdleReq, sessionId |-> JsUndefinedId, status |-> 0,
           body |-> "none", existed |-> FALSE, hasApiKey |-> FALSE]

Active(rec) == rec.pc \in {"awaitSend", "awaitChunk"}

\* history the store holds for an id; no entry reads as the empty history
Stored(store, hp, id) == IF store[id] = NoObj THEN <<>> ELSE hp[store[id]]

\* ----- garbage: objects no Map entry and no running handler refers to -----
Referenced(a, store, rq) ==
    \/ \E id \in SessionIds : store[id] = a
    \/ \E r \in Reqs : Active(rq[r]) /\ rq[r].session = a

Collect(hp, store, rq) ==
    [a \in Addrs |-> IF Referenced(a, store, rq) THEN hp[a] ELSE <<>>]

NewObj(store, rq) ==
    CHOOSE a \in Addrs :
        /\ ~Referenced(a, store, rq)
        /\ \A b \in Addrs : ~Referenced(b, store, rq) => a <= b

\* ensureSession(sessionId): the Map and the heap afterwards, and the object
ensureSession(id) ==
    IF sessionStore[id] = NoObj
    THEN LET a == NewObj(sessionStore, reqs)
         IN  [store |-> [sessionStore EXCEPT ![id] = a],
              heap |-> [heap EXCEPT ![a] = <<>>],
              obj |-> a]
    ELSE [store |-> sessionStore, heap |-> heap, obj |-> sessionStore[id]]

\* sessionStore.clear()
deleteSession_all(store, id) == [s \in SessionIds |-> NoObj]

\* a reset that answers ok and keeps the entry
deleteSession_keeps(store, id) == store

\* sessionStore.delete(sessionId)
deleteSession(store, id) == [store EXCEPT ![id] = NoObj]

\* a client built without looking at the key
getGenAI_unchecked == "genAI"

\* getGenAI(): throws when API_KEY is empty
getGenAI == IF API_KEY = "" THEN "throws" ELSE "genAI"

TypeOK ==
    /\ API_KEY \in {"", "key"}
    /\ sessionStore \in [SessionIds -> Addrs \cup {NoObj}]
    /\ DOMAIN heap = Addrs
    /\ DOMAIN reqs = Reqs
    /\ nreq \in 0..MaxRequests

\* Without a key no turn is ever committed, so the store starts empty; with a
\* key, session s1 holds the history that MAX_TURNS committed turns leave.
Init ==
    /\ API_KEY \in {"", "key"}
    /\ IF API_KEY = ""
       THEN /\ sessionStore = [id \in SessionIds |-> NoObj]
            /\ heap = [a \in Addrs |-> <<>>]
       ELSE /\ sessionStore = [id \in SessionIds |-> IF id = "s1" THEN 1 ELSE NoObj]
            /\ heap = [a \in Addrs |-> IF a = 1 THEN Filled(2 * MAX_TURNS) ELSE <<>>]
    /\ reqs = [r \in Reqs |-> IdleReq]
    /\ nreq = 0
    /\ last = NoLast

\* GET /api/health
Health ==
    /\ last' = [NoLast EXCEPT !.op = "health", !.status = 200, !.body = "ok",
                              !.hasApiKey = (API_KEY # "")]
    /\ UNCHANGED <<API_KEY, sessionStore, heap, reqs, nreq>>

\* POST /api/session/reset
Reset(sessionId) ==
    IF Falsy(sessionId)
    THEN /\ last' = [NoLast EXCEPT !.op = "reset", !.sessionId = sessionId,
                                   !.status = 400, !.body = "error"]
         /\ UNCHANGED <<API_KEY, sessionStore, heap, reqs, nreq>>
    ELSE LET id == sessionId.val
             store1 == deleteSession(sessionStore, id)
             reqs1 == [r \in Reqs |->
                         IF Active(reqs[r]) /\ reqs[r].body.sessionId = sessionId
                         THEN [reqs[r] EXCEPT !.overlap = TRUE, !.wasReset = TRUE]
                         ELSE reqs[r]]
         IN  /\ sessionStore' = store1
             /\ heap' = Collect(heap, store1, reqs1)
             /\ reqs' = reqs1
             /\ last' = [NoLast EXCEPT !.op = "reset", !.sessionId = sessionId,
                                       !.status = 200, !.body = "ok",
                                       !.existed = (sessionStore[id] # NoObj)]
             /\ UNCHANGED <<API_KEY, nreq>>

\* the exchange of a chat request that has returned
Closed(rec) == [NoLast EXCEPT !.op = "chat", !.req = [rec EXCEPT !.pc = "closed"]]

\* the commit test without the aborted flag
commits_ignoringAbort(rec) == rec.aggregated # <<>>

\* line 149: !aborted && aggregated
commits(rec) == ~rec.aborted /\ rec.aggregated # <<>>

\* the turns appended to the history the handler read when it began
pushTurns_toContext(history, rec) ==
    rec.context \o <<userMessage(rec.body.message.val), assistantMessage(rec.aggregated)>>

\* the two pushes in the other order
pushTurns_modelFirst(history, rec) ==
    history \o <<assistantMessage(rec.aggregated), userMessage(rec.body.message.val)>>

\* lines 150-152: the two pushes
pushTurns(history, rec) ==
    history \o <<userMessage(rec.body.message.val), assistantMessage(rec.aggregated)>>

\* a commit that looks the session up again by its id
commitTarget_lookup(rec, store) ==
    IF store[rec.body.sessionId.val] = NoObj
    THEN rec.session
    ELSE store[rec.body.sessionId.val]

\* line 150: session is the object the handler got at line 101
commitTarget(rec, store) == rec.session

\* lines 148-156: commit if not aborted, the done frame, res.end()
Finish(r, rec) ==
    LET target == commitTarget(rec, sessionStore)
        heap1 == IF commits(rec)
                 THEN [heap EXCEPT ![target] = pushTurns(@, rec)]
                 ELSE heap
        reqs1 == [q \in Reqs |->
                    IF q = r THEN IdleReq
                    ELSE IF commits(rec) /\ Active(reqs[q]) /\ reqs[q].session = target
                    THEN [reqs[q] EXCEPT !.others =
                             Append(@, [message |-> rec.body.message.val,
                                        text |-> rec.aggregated])]
                    ELSE reqs[q]]
    IN  /\ heap' = Collect(heap1, sessionStore, reqs1)
        /\ reqs' = reqs1
        /\ last' = Closed([rec EXCEPT !.resp = Finalize(@), !.hist = heap1[target]])
        /\ UNCHANGED <<API_KEY, sessionStore, nreq>>

\* a catch that writes nothing
Caught_silent(rec) == rec

\* lines 141-143, the catch of the streaming try: one error frame
Caught(rec) == [rec EXCEPT !.resp = Write(@, Frame("error", <<>>))]

\* result.response.text is never asked for
Aggregate_concatOnly(rec, fin) ==
    IF fin.kind = "throws" THEN Caught([rec EXCEPT !.final = fin])
    ELSE [rec EXCEPT !.final = fin]

\* lines 139-140: final = result.response.text ? result.response.text() : aggregated
Aggregate(rec, fin) ==
    LET got == [rec EXCEPT !.final = fin]
    IN  IF fin.kind = "throws" THEN Caught(got)
        ELSE IF fin.kind = "text" /\ fin.text # <<>> THEN [got EXCEPT !.aggregated = fin.text]
        ELSE got

\* one frame that carries everything aggregated so far
Forward_merged(rec, chunkText) ==
    IF chunkText # <<>>
    THEN [rec EXCEPT !.aggregated = @ \o chunkText,
                     !.resp.frames = <<Frame("content", rec.aggregated \o chunkText)>>]
    ELSE rec

\* for await: one more chunk is taken from the stream
Consume(rec, chunkText) == [rec EXCEPT !.taken = Append(@, chunkText)]

\* lines 132-136: a non-empty chunk text is aggregated and written as a frame
Forward(rec, chunkText) ==
    IF chunkText # <<>>
    THEN [rec EXCEPT !.aggregated = @ \o chunkText,
                     !.resp = Write(@, Frame("content", chunkText))]
    ELSE rec

\* a loop that never looks at aborted
breaks_never(rec) == FALSE

\* line 131: if (aborted) break
breaks(rec) == rec.aborted

\* the break placed after the write
Suppress_afterWrite(rec, chunkText) ==
    IF chunkText # <<>>
    THEN [rec EXCEPT !.aggregated = @ \o chunkText,
                     !.resp = Write(@, Frame("content", chunkText))]
    ELSE rec

\* the break comes before the chunk is looked at: nothing of it is forwarded
Suppress(rec, chunkText) == rec

\* POST /api/chat, from the start of the handler to its first await
ChatStart(r, body, sdkThrows) ==
    /\ ~Active(reqs[r])
    /\ \A q \in Reqs : q < r => Active(reqs[q])
    /\ nreq < MaxRequests
    /\ nreq' = nreq + 1
    /\ UNCHANGED API_KEY
    /\ LET fresh == [IdleReq EXCEPT !.body = body, !.slot = r]
       IN  IF Falsy(body.sessionId) \/ BadMessage(body.message)
           THEN /\ last' = Closed([fresh EXCEPT !.resp = JsonError(400)])
                /\ UNCHANGED <<sessionStore, heap, reqs>>
           ELSE LET id == body.sessionId.val
                    es == ensureSession(id)
                    heap1 == [es.heap EXCEPT ![es.obj] = clampTurns(@)]
                    valid == [fresh EXCEPT !.pre = Stored(sessionStore, heap, id)]
                    same == {q \in Reqs \ {r} :
                               Active(reqs[q]) /\ reqs[q].body.sessionId = body.sessionId}
                    busy == same # {}
                    inFlight == Cardinality(same) + 1
                    reqs1 == [q \in Reqs |->
                                IF q = r
                                THEN [valid EXCEPT !.pc = "awaitSend", !.session = es.obj,
                                                   !.overlap = busy,
                                                   !.context = heap1[es.obj],
                                                   !.peers = inFlight]
                                ELSE IF q \in same
                                THEN [reqs[q] EXCEPT !.overlap = TRUE,
                                                     !.peers = IF @ < inFlight THEN inFlight ELSE @]
                                ELSE reqs[q]]
                IN  /\ sessionStore' = es.store
                    /\ IF getGenAI = "throws"
                       THEN /\ last' = Closed([valid EXCEPT !.resp = JsonError(500),
                                                             !.hist = heap1[es.obj]])
                            /\ reqs' = reqs
                            /\ heap' = Collect(heap1, es.store, reqs)
                       ELSE IF sdkThrows
                       THEN /\ last' = Closed([valid EXCEPT !.resp = JsonError(400),
                                                             !.hist = heap1[es.obj]])
                            /\ reqs' = reqs
                            /\ heap' = Collect(heap1, es.store, reqs)
                       ELSE /\ last' = NoLast
                            /\ reqs' = reqs1
                            /\ heap' = Collect(heap1, es.store, reqs1)

\* await chat.sendMessageStream(message) resolves; the loop asks for a chunk
SendResolves(r) ==
    /\ reqs[r].pc = "awaitSend"
    /\ reqs' = [reqs EXCEPT ![r].pc = "awaitChunk"]
    /\ last' = NoLast
    /\ UNCHANGED <<API_KEY, sessionStore, heap, nreq>>

\* await chat.sendMessageStream(message) rejects
SendFails(r) ==
    /\ reqs[r].pc = "awaitSend"
    /\ Finish(r, Caught([reqs[r] EXCEPT !.how = "sendFailed"]))

\* the stream yields its next chunk into the loop body and aborted is not set
ChunkArrives(r, chunkText) ==
    /\ reqs[r].pc = "awaitChunk"
    /\ Len(reqs[r].taken) < MaxIncr
    /\ ~breaks(reqs[r])
    /\ reqs' = [reqs EXCEPT ![r] = Forward(Consume(@, chunkText), chunkText)]
    /\ last' = NoLast
    /\ UNCHANGED <<API_KEY, sessionStore, heap, nreq>>

\* the stream yields its next chunk and aborted is set: the loop breaks;
\* left is the number of increments the stream would still have yielded
ChunkBreaks(r, chunkText, fin, left) ==
    /\ reqs[r].pc = "awaitChunk"
    /\ Len(reqs[r].taken) + 1 + left <= MaxIncr
    /\ breaks(reqs[r])
    /\ Finish(r, Aggregate([Suppress(Consume(reqs[r], chunkText), chunkText)
                               EXCEPT !.how = "broke", !.left = left], fin))

\* the stream ends normally
StreamEnds(r, fin) ==
    /\ reqs[r].pc = "awaitChunk"
    /\ Finish(r, Aggregate([reqs[r] EXCEPT !.how = "ended"], fin))

\* the stream throws instead of yielding (a throw of chunk.text() at line 132
\* lands in the same catch)
StreamFails(r) ==
    /\ reqs[r].pc = "awaitChunk"
    /\ Finish(r, Caught([reqs[r] EXCEPT !.how = "streamFailed"]))

\* req 'close' while onClose is registered
ClientClose(r) ==
    /\ Active(reqs[r])
    /\ ~reqs[r].aborted
    /\ reqs' = [reqs EXCEPT ![r].aborted = TRUE,
                            ![r].cut = [taken |-> Len(reqs[r].taken),
                                        frames |-> Len(reqs[r].resp.frames)]]
    /\ last' = NoLast
    /\ UNCHANGED <<API_KEY, sessionStore, heap, nreq>>

\* One caller at a time: a chat request arrives after the previous one returned.
Next ==
    \/ Health
    \/ \E sessionId \in BodyIds : Reset(sessionId)
    \/ \E r \in Serial, body \in Bodies, sdkThrows \in BOOLEAN : ChatStart(r, body, sdkThrows)
    \/ \E r \in Serial : SendResolves(r)
    \/ \E r \in Serial : SendFails(r)
    \/ \E r \in Serial, chunkText \in ChunkTexts : ChunkArrives(r, chunkText)
    \/ \E r \in Serial, chunkText \in ChunkTexts, fin \in Finals, left \in 0..MaxIncr :
          ChunkBreaks(r, chunkText, fin, left)
    \/ \E r \in Serial, fin \in Finals : StreamEnds(r, fin)
    \/ \E r \in Serial : StreamFails(r)
    \/ \E r \in Serial : ClientClose(r)

Spec == Init /\ [][Next]_vars


\* ----- handlers in flight together -----
\* Callers that send valid requests to a client that can be built; every
\* stream yields at most one increment, and result.response.text is either
\* missing or gives a text.
ValidBodies == {[sessionId |-> JsId(s), message |-> JsMsg(Hi)] : s \in SessionIds}
ConcFinals == {fin \in Finals : fin.kind = "absent" \/ (fin.kind = "text" /\ fin.text # <<>>)}

NextConc ==
    \/ \E s \in SessionIds : Reset(JsId(s))
    \/ \E r \in Reqs, body \in ValidBodies : ChatStart(r, body, FALSE)
    \/ \E r \in Reqs : SendResolves(r)
    \/ \E r \in Reqs : reqs[r].taken = <<>> /\ ChunkArrives(r, <<"a">>)
    \/ \E r \in Reqs, fin \in ConcFinals : StreamEnds(r, fin)
    \/ \E r \in Reqs : ClientClose(r)

SpecConc == Init /\ [][NextConc]_vars


\* ----- one caller, increments that can be told apart -----
OrderTexts == ChunkTexts \cup {<<"b">>}

NextOrder ==
    \/ \E body \in ValidBodies : ChatStart(1, body, FALSE)
    \/ SendResolves(1)
    \/ \E chunkText \in OrderTexts : ChunkArrives(1, chunkText)
    \/ \E chunkText \in OrderTexts, fin \in ConcFinals : ChunkBreaks(1, chunkText, fin, 0)
    \/ \E fin \in ConcFinals : StreamEnds(1, fin)
    \/ StreamFails(1)
    \/ ClientClose(1)

SpecOrder == Init /\ [][NextOrder]_vars


\* ----- progress -----
\* the upstream call of r stops for good: no chunk, no end, no failure
\* (no timeout is set on it)
Hangs(r) ==
    /\ Active(reqs[r])
    /\ ~reqs[r].hung
    /\ reqs' = [reqs EXCEPT ![r].hung = TRUE]
    /\ last' = NoLast
    /\ UNCHANGED <<API_KEY, sessionStore, heap, nreq>>

Absent == [kind |-> "absent", text |-> <<>>]

\* what the stream of r does next, unless it hangs
Adapter(r) ==
    /\ ~reqs[r].hung
    /\ \/ SendResolves(r)
       \/ SendFails(r)
       \/ reqs[r].taken = <<>> /\ ChunkArrives(r, <<"a">>)
       \/ ChunkBreaks(r, <<"a">>, Absent, 0)
       \/ StreamEnds(r, Absent)
       \/ StreamFails(r)

NextLive ==
    \/ \E r \in Reqs, body \in ValidBodies : ChatStart(r, body, FALSE)
    \/ \E r \in Reqs : Adapter(r)
    \/ \E r \in Reqs : ClientClose(r)
    \/ \E r \in Reqs : Hangs(r)

\* The event loop runs every callback that is ready, and a stream that does
\* not hang settles its pending promise.
SpecLive == Init /\ [][NextLive]_vars /\ \A r \in Reqs : WF_vars(Adapter(r))


\* ----- clampTurns on its own -----
\* a history of n entries, entry i carrying its own number as text
Numbered(n) ==
    [i \in 1..n |-> IF i % 2 = 1 THEN userMessage(<<i>>) ELSE assistantMessage(<<i>>)]

\* heap[1] is the argument; heap[2] and heap[3] receive the results
InitClamp ==
    /\ API_KEY = "key"
    /\ sessionStore = [id \in SessionIds |-> NoObj]
    /\ \E n \in 0..(2 * MAX_TURNS + MaxOver) :
          heap = [a \in Addrs |-> IF a = 1 THEN Numbered(n) ELSE <<>>]
    /\ reqs = [r \in Reqs |-> IdleReq]
    /\ nreq = 0
    /\ last = NoLast

\* clampTurns(history)
ClampOnce ==
    /\ last.op = "none"
    /\ heap' = [heap EXCEPT ![2] = clampTurns(heap[1])]
    /\ last' = [NoLast EXCEPT !.op = "clampTurns"]
    /\ UNCHANGED <<API_KEY, sessionStore, reqs, nreq>>

\* clampTurns(clampTurns(history))
ClampAgain ==
    /\ last.op = "clampTurns"
    /\ heap' = [heap EXCEPT ![3] = clampTurns(heap[2])]
    /\ last' = [NoLast EXCEPT !.op = "clampTurns again"]
    /\ UNCHANGED <<API_KEY, sessionStore, reqs, nreq>>

NextClamp == ClampOnce \/ ClampAgain

SpecClamp == InitClamp /\ [][NextClamp]_vars


\* ======================= properties =======================

Types(frames) == [i \in 1..Len(frames) |-> frames[i].type]
ContentCount(frames) == Cardinality({i \in 1..Len(frames) : frames[i].type = "content"})
AllContent(frames) == \A i \in 1..Len(frames) : frames[i].type = "content"

\* content*, then at most one error, then exactly one done
WellFormed(frames) ==
    \E k \in 0..Len(frames) :
        /\ \A i \in 1..k : frames[i].type = "content"
        /\ SubSeq(Types(frames), k + 1, Len(frames)) \in {<<"done">>, <<"error", "done">>}

\* the newest n entries of a history, in order
Newest(h, n) == IF Len(h) <= n THEN h ELSE [i \in 1..n |-> h[Len(h) - n + i]]

Blank(s) == \A i \in 1..Len(s) : s[i] = " "
Invalid(body) ==
    \/ body.sessionId.type = "undefined"
    \/ body.sessionId.val = ""
    \/ body.message.type # "string"
    \/ Blank(body.message.val)

\* the chat request that returned in the last step
Returned == last.op = "chat"
Streamed == Returned /\ last.req.how # "none"
Req == last.req

\* C1: a request that reached the streaming step writes content frames, then at
\* most one error frame, then exactly one done frame and ends; while it runs it
\* has written content frames only.
C1_FrameSequence ==
    /\ Streamed => WellFormed(Req.resp.frames) /\ Req.resp.ended /\ Req.resp.status = 200
    /\ \A r \in Reqs : Active(reqs[r]) => AllContent(reqs[r].resp.frames) /\ ~reqs[r].resp.ended

C1_Witness ==
    Streamed /\ Req.aborted /\ Types(Req.resp.frames) = <<"content", "error", "done">>

\* C2: the step in which a handler returns appends a user and a model turn to
\* its session object's history exactly when aborted is not set and the
\* aggregated text is not empty, and otherwise leaves that history alone.
C2_CommitIff ==
    [][\A r \in Reqs :
          (Active(reqs[r]) /\ ~Active(reqs'[r])) =>
              LET before == heap[reqs[r].session]
                  after == last'.req.hist
              IN  IF ~reqs[r].aborted /\ last'.req.aggregated # <<>>
                  THEN /\ Len(after) = Len(before) + 2
                       /\ SubSeq(after, 1, Len(before)) = before
                  ELSE after = before]_vars

C2_Witness ==
    /\ Streamed /\ Req.how = "streamFailed" /\ ~Req.aborted /\ Req.aggregated # <<>>
    /\ Len(Req.hist) >= 2
    /\ Req.hist[Len(Req.hist)] = assistantMessage(Req.aggregated)

Committed == Streamed /\ ~Req.aborted /\ Req.aggregated # <<>> /\ ~Req.overlap
Discarded ==
    /\ Returned /\ ~Invalid(Req.body) /\ ~Req.overlap
    /\ Req.aborted \/ Req.aggregated = <<>>
NowStored == Stored(sessionStore, heap, Req.body.sessionId.val)

\* C3 as claimed: after a committed request nothing overlapped, the stored
\* history is 2 entries longer than before the request and ends with its
\* user turn and its model turn.
C3_GrowsByTwo ==
    Committed =>
        /\ Len(NowStored) = Len(Req.pre) + 2
        /\ NowStored[Len(NowStored) - 1] = userMessage(Req.body.message.val)
        /\ NowStored[Len(NowStored)] = assistantMessage(Req.aggregated)

\* C3 as amended: after a committed request nothing overlapped, the stored
\* history is the newest 2*MAX_TURNS entries of the history before the request
\* followed by the request's user turn and its model turn.
C3_GrowsByTwoFromTruncated ==
    Committed =>
        NowStored = Newest(Req.pre, 2 * MAX_TURNS)
                        \o <<userMessage(Req.body.message.val),
                             assistantMessage(Req.aggregated)>>

C3_Witness == Committed /\ Len(Req.pre) > 2 * MAX_TURNS /\ Len(NowStored) = Len(Req.pre)

\* C4 as claimed: after a validated request that was cancelled or ended with
\* empty text, nothing overlapping it, the stored history is the one before it.
C4_Unchanged == Discarded => NowStored = Req.pre

\* C4 as amended: after such a request the stored history is the newest
\* 2*MAX_TURNS entries of the history before it.
C4_TruncatedOnly == Discarded => NowStored = Newest(Req.pre, 2 * MAX_TURNS)

C4_Witness ==
    /\ Discarded /\ Req.aborted /\ Req.how = "broke"
    /\ Len(Req.pre) > 2 * MAX_TURNS /\ Len(NowStored) = 2 * MAX_TURNS

C6_NoContentAfterClose ==
    /\ (Streamed /\ Req.aborted) => ContentCount(Req.resp.frames) = Req.cut.frames
    /\ \A r \in Reqs :
          (Active(reqs[r]) /\ reqs[r].aborted) =>
              ContentCount(reqs[r].resp.frames) = reqs[r].cut.frames

C6_Witness ==
    /\ Streamed /\ Req.how = "broke" /\ Req.cut.frames = 1
    /\ Req.taken[Len(Req.taken)] # <<>>

\* C7: a request with a missing or empty sessionId, or a message that is no
\* string or blank, gets one 400 error response and no frame, starts no
\* handler and leaves the store as it was; no such request ever streams.
C7_ValidationRejects ==
    [][/\ (nreq' # nreq /\ last'.op = "chat" /\ Invalid(last'.req.body)) =>
             /\ last'.req.resp = [status |-> 400, body |-> "error",
                                  frames |-> <<>>, ended |-> TRUE]
             /\ last'.req.how = "none"
             /\ sessionStore' = sessionStore /\ heap' = heap /\ reqs' = reqs
       /\ nreq' # nreq =>
             \/ last'.op = "chat"
             \/ \E r \in Reqs : ~Active(reqs[r]) /\ Active(reqs'[r])
       /\ \A r \in Reqs : Active(reqs'[r]) => ~Invalid(reqs'[r].body)]_vars

C7_Witness ==
    /\ Returned /\ Req.body.sessionId = JsId("s2") /\ Req.body.message = JsMsg(<<" ">>)
    /\ Req.resp.status = 400 /\ sessionStore["s2"] = NoObj

\* C8 as claimed: a failure when the stream is initiated gives one structured
\* error response and no frame; a failure of the running stream gives an error
\* frame followed by done.
C8_InitFailureIsStructured ==
    /\ (Streamed /\ Req.how = "sendFailed") =>
          Req.resp.body = "error" /\ Req.resp.frames = <<>>
    /\ (Streamed /\ Req.how = "streamFailed") =>
          /\ Len(Req.resp.frames) >= 2
          /\ SubSeq(Types(Req.resp.frames), Len(Req.resp.frames) - 1,
                    Len(Req.resp.frames)) = <<"error", "done">>

\* C8 as amended: a rejected sendMessageStream gives a 200 NDJSON response of
\* an error frame and a done frame; a failure of the running stream gives the
\* content frames written so far, an error frame and a done frame; a structured
\* error response without frames is what a request gets exactly when it ends
\* before sendMessageStream is called.
C8_FailureReporting ==
    /\ (Returned /\ Req.how = "sendFailed") =>
          /\ Req.resp.status = 200 /\ Req.resp.body = "ndjson"
          /\ Types(Req.resp.frames) = <<"error", "done">>
    /\ (Returned /\ Req.how = "streamFailed") =>
          /\ Req.resp.status = 200 /\ Req.resp.body = "ndjson"
          /\ Len(Req.resp.frames) >= 2
          /\ AllContent(SubSeq(Req.resp.frames, 1, Len(Req.resp.frames) - 2))
          /\ SubSeq(Types(Req.resp.frames), Len(Req.resp.frames) - 1,
                    Len(Req.resp.frames)) = <<"error", "done">>
    /\ Returned =>
          (Req.how = "none") =
              (/\ Req.resp.body = "error" /\ Req.resp.frames = <<>>
               /\ Req.resp.status \in {400, 500})

C8_Witness == Returned /\ Req.how = "sendFailed" /\ Req.resp.status = 200

\* C9: without a credential a valid chat request gets one 500 error response
\* and no frame, no handler ever waits on the adapter, every history stays
\* empty, health answers 200 with hasApiKey false and a reset with an id
\* answers ok.
C9_NoCredential ==
    API_KEY = "" =>
        /\ (Returned /\ ~Invalid(Req.body)) =>
              /\ Req.resp = [status |-> 500, body |-> "error",
                             frames |-> <<>>, ended |-> TRUE]
              /\ Req.how = "none"
        /\ \A r \in Reqs : ~Active(reqs[r])
        /\ \A a \in Addrs : heap[a] = <<>>
        /\ last.op = "health" => last.status = 200 /\ last.body = "ok" /\ ~last.hasApiKey
        /\ (last.op = "reset" /\ last.sessionId \in {JsId(id) : id \in SessionIds}) =>
              last.status = 200 /\ last.body = "ok"
        /\ ENABLED Health
        /\ \A id \in SessionIds : ENABLED Reset(JsId(id))

C9_Witness ==
    /\ API_KEY = "" /\ Returned /\ ~Invalid(Req.body) /\ Req.resp.status = 500
    /\ sessionStore[Req.body.sessionId.val] # NoObj

\* C10: a reset with an id answers ok, removes that id's entry and no other,
\* and changes nothing when the id has no entry (so a second reset changes
\* nothing); a reset without an id answers 400 and changes nothing.
C10_ResetIdempotent ==
    [][last'.op = "reset" =>
          IF last'.sessionId.type = "undefined" \/ last'.sessionId.val = ""
          THEN /\ last'.status = 400 /\ last'.body = "error"
               /\ sessionStore' = sessionStore /\ heap' = heap
          ELSE LET id == last'.sessionId.val
               IN  /\ last'.status = 200 /\ last'.body = "ok"
                   /\ sessionStore'[id] = NoObj
                   /\ \A o \in SessionIds \ {id} : sessionStore'[o] = sessionStore[o]
                   /\ sessionStore[id] = NoObj =>
                         sessionStore' = sessionStore /\ heap' = heap
                   /\ (last.op = "reset" /\ last.sessionId = last'.sessionId) =>
                         sessionStore' = sessionStore /\ heap' = heap]_vars

C10_Witness ==
    /\ last.op = "reset" /\ last.status = 200 /\ last.existed
    /\ sessionStore[last.sessionId.val] = NoObj

\* C11: clampTurns(H) has at most 2 * MAX_TURNS entries; it is H when H has at
\* most 2 * MAX_TURNS entries and otherwise the last 2 * MAX_TURNS entries of H
\* in their order; clamping the result again changes nothing.
C11_Truncate ==
    LET H == heap[1]
        T == heap[2]
        m == MAX_TURNS
    IN  /\ last.op \in {"clampTurns", "clampTurns again"} =>
              /\ Len(T) <= 2 * m
              /\ Len(H) <= 2 * m => T = H
              /\ Len(H) > 2 * m =>
                    /\ Len(T) = 2 * m
                    /\ \A i \in 1..(2 * m) : T[i] = H[Len(H) - 2 * m + i]
        /\ last.op = "clampTurns again" => heap[3] = T

C11_Witness ==
    /\ last.op = "clampTurns again"
    /\ Len(heap[1]) > 2 * MAX_TURNS
    /\ Len(heap[3]) = 2 * MAX_TURNS
    /\ heap[3][1] = heap[1][Len(heap[1]) - 2 * MAX_TURNS + 1]

\* C12: whatever requests and resets interleave, the history a handler gives
\* to startChat has at most 2 * MAX_TURNS entries and is the newest
\* min(length, 2 * MAX_TURNS) entries of the history the store held for the
\* session when the handler began, in their order.
C12_ContextTruncated ==
    \A r \in Reqs :
        Active(reqs[r]) =>
            /\ Len(reqs[r].context) <= 2 * MAX_TURNS
            /\ reqs[r].context = Newest(reqs[r].pre, 2 * MAX_TURNS)

C12_Witness ==
    \E r \in Reqs :
        /\ Active(reqs[r])
        /\ Len(reqs[r].pre) > 2 * MAX_TURNS
        /\ Len(reqs[r].context) = 2 * MAX_TURNS
        /\ reqs[r].context[2 * MAX_TURNS] = reqs[r].pre[Len(reqs[r].pre)]

\* the turns a sequence of commits leaves, in commit order
RECURSIVE Pairs(_)
Pairs(cs) ==
    IF cs = <<>> THEN <<>>
    ELSE <<userMessage(Head(cs).message), assistantMessage(Head(cs).text)>> \o Pairs(Tail(cs))

EndsWith(h, t) == Len(h) >= Len(t) /\ SubSeq(h, Len(h) - Len(t) + 1, Len(h)) = t

\* C13: when a request commits after other requests for the same session
\* committed during its flight, and no reset ran meanwhile, the stored history
\* ends with the user turn and model turn of each of those commits, in commit
\* order, followed by this request's user turn and model turn.
C13_BothPairsKept ==
    (Streamed /\ ~Req.aborted /\ Req.aggregated # <<>> /\ ~Req.wasReset /\ Req.others # <<>>) =>
        EndsWith(NowStored,
                 Pairs(Req.others) \o <<userMessage(Req.body.message.val),
                                        assistantMessage(Req.aggregated)>>)

C13_Witness ==
    /\ Streamed /\ ~Req.aborted /\ Req.aggregated # <<>> /\ ~Req.wasReset
    /\ Len(Req.others) = 1
    /\ Req.others[1].text # Req.aggregated
    /\ Len(NowStored) = Len(Req.context) + 4
    /\ NowStored[Len(NowStored) - 2] = assistantMessage(Req.others[1].text)
    /\ NowStored[Len(NowStored)] = assistantMessage(Req.aggregated)

\* the texts of the content frames, in the order written
ContentTexts(frames) ==
    LET content == SelectSeq(frames, LAMBDA f : f.type = "content")
    IN  [i \in 1..Len(content) |-> content[i].text]

NonEmpty(texts) == SelectSeq(texts, LAMBDA t : t # <<>>)

\* the increments the loop body looked at: all taken ones, or those taken
\* before the client closed
Seen(rec) == SubSeq(rec.taken, 1, IF rec.aborted THEN rec.cut.taken ELSE Len(rec.taken))

\* C14: at every moment the content frames written for a request are one frame
\* per non-empty increment the loop has seen, each carrying that increment's
\* text, in the order the stream yielded them: the frame of an increment is
\* written before the next one is taken, nothing is buffered, reordered or merged.
C14_FramesInOrder ==
    /\ \A r \in Reqs :
          Active(reqs[r]) => ContentTexts(reqs[r].resp.frames) = NonEmpty(Seen(reqs[r]))
    /\ Streamed => ContentTexts(Req.resp.frames) = NonEmpty(Seen(Req))

C14_Witness ==
    \E r \in Reqs :
        /\ Active(reqs[r])
        /\ reqs[r].taken = <<<<"b">>, <<"a">>>>
        /\ ContentTexts(reqs[r].resp.frames) = <<<<"b">>, <<"a">>>>
        /\ Len(reqs[r].resp.frames) = 2

RECURSIVE Concat(_)
Concat(texts) == IF texts = <<>> THEN <<>> ELSE Head(texts) \o Concat(Tail(texts))

\* a request that returned and pushed its two turns
Pushed == Streamed /\ ~Req.aborted /\ Req.aggregated # <<>>
ModelTurn == Req.hist[Len(Req.hist)]

\* C15 as claimed: the committed model turn carries the final text whenever
\* result.response.text gave one, and the concatenation of the forwarded
\* increments only when it gave none.
C15_FinalTextWins ==
    Pushed =>
        /\ Len(Req.hist) >= 2 /\ ModelTurn.role = "model"
        /\ ModelTurn.text = IF Req.final.kind = "text"
                            THEN Req.final.text
                            ELSE Concat(ContentTexts(Req.resp.frames))

\* C15: the committed model turn carries the final text whenever
\* result.response.text gave a non-empty one; when it gave none, gave the
\* empty text or threw, or the stream failed before it was asked, the turn
\* carries the concatenation of the forwarded increments in their order.
C15_NonEmptyFinalTextWins ==
    Pushed =>
        /\ Len(Req.hist) >= 2 /\ ModelTurn.role = "model"
        /\ ModelTurn.text = IF Req.final.kind = "text" /\ Req.final.text # <<>>
                            THEN Req.final.text
                            ELSE Concat(ContentTexts(Req.resp.frames))

C15_Witness ==
    /\ Pushed
    /\ Req.final = [kind |-> "text", text |-> <<"F">>]
    /\ Concat(ContentTexts(Req.resp.frames)) = <<"a">>
    /\ ModelTurn = assistantMessage(<<"F">>)

\* the handler in slot r has just written its done frame and ended the response
DoneBy(r) ==
    /\ Streamed /\ Req.slot = r
    /\ Req.resp.ended
    /\ Req.resp.frames # <<>>
    /\ Req.resp.frames[Len(Req.resp.frames)].type = "done"

\* C16: every request that reached the upstream call writes its done frame
\* and ends its response, unless its own upstream call hangs; the client
\* closing does not change this, and neither does a hanging call of another
\* request.
C16_EventuallyDone ==
    \A r \in Reqs : Active(reqs[r]) ~> (reqs[r].hung \/ DoneBy(r))

C16_Witness ==
    \E r, q \in Reqs :
        /\ r # q
        /\ Active(reqs[q]) /\ reqs[q].hung
        /\ DoneBy(r)
        /\ Req.body.sessionId # reqs[q].body.sessionId
        /\ Req.aborted

\* user, model, user, model, ...: even length, a user turn first
Alternates(h) ==
    /\ Len(h) % 2 = 0
    /\ \A i \in 1..Len(h) : h[i].role = IF i % 2 = 1 THEN "user" ELSE "model"

\* C17: every history the store holds, and every history a running handler
\* holds, has even length and alternates user, model starting with a user
\* turn; so does the history that truncation leaves.
C17_Alternation ==
    /\ \A id \in SessionIds : Alternates(Stored(sessionStore, heap, id))
    /\ \A r \in Reqs : Active(reqs[r]) =>
          Alternates(heap[reqs[r].session]) /\ Alternates(reqs[r].context)

C17_Witness ==
    \E r \in Reqs :
        /\ Active(reqs[r])
        /\ Len(reqs[r].pre) = 2 * MAX_TURNS + 2
        /\ reqs[r].context = SubSeq(reqs[r].pre, 3, Len(reqs[r].pre))
        /\ reqs[r].context[1].role = "user"
        /\ Stored(sessionStore, heap, reqs[r].body.sessionId.val) = reqs[r].context

\* C18: a stored history has at most 2 * MAX_TURNS + 2 * N entries, N being
\* the most requests for its session in flight at once: at most
\* 2 * MAX_TURNS + 2 * Cardinality(Reqs) whatever interleaves, at most
\* 2 * MAX_TURNS + 2 * peers when a request returns that saw at most peers
\* requests in flight together (peers = 1: nothing overlapped it), and at
\* most 2 * MAX_TURNS right after the truncation of line 102.
C18_LengthBound ==
    /\ \A id \in SessionIds :
          Len(Stored(sessionStore, heap, id)) <= 2 * MAX_TURNS + 2 * Cardinality(Reqs)
    /\ Streamed =>
          /\ Len(Req.hist) <= 2 * MAX_TURNS + 2 * Req.peers
          /\ ~Req.wasReset => Len(NowStored) <= 2 * MAX_TURNS + 2 * Req.peers
    /\ \A r \in Reqs : Active(reqs[r]) => Len(reqs[r].context) <= 2 * MAX_TURNS

C18_Witness ==
    /\ Streamed /\ ~Req.wasReset
    /\ Req.peers = 2
    /\ Len(Req.context) = 2 * MAX_TURNS
    /\ Len(NowStored) = 2 * MAX_TURNS + 4

\* C19: a reset empties the stored history of its id, and the return of a
\* request that was in flight when a reset for its id ran changes no stored
\* history: what it commits does not reach the store, so after the reset the
\* store holds for that id only what requests begun later commit.
C19_ResetCutsOff ==
    [][/\ (last'.op = "reset" /\ last'.status = 200) =>
             Stored(sessionStore', heap', last'.sessionId.val) = <<>>
       /\ \A r \in Reqs :
             (Active(reqs[r]) /\ reqs[r].wasReset /\ ~Active(reqs'[r])) =>
                 \A id \in SessionIds :
                     Stored(sessionStore', heap', id) = Stored(sessionStore, heap, id)]_vars

C19_Witness ==
    /\ Pushed /\ Req.wasReset
    /\ Len(Req.hist) = 2 * MAX_TURNS + 2
    /\ sessionStore[Req.body.sessionId.val] # NoObj
    /\ Len(NowStored) = 2

\* the step just taken was a step of a reset or of a chat request for id
StepFor(id) ==
    \/ last'.op = "reset" /\ last'.sessionId = JsId(id)
    \/ last'.op = "chat" /\ last'.req.body.sessionId = JsId(id)
    \/ \E r \in Reqs :
          /\ reqs'[r] # reqs[r]
          /\ Active(reqs'[r])
          /\ reqs'[r].body.sessionId = JsId(id)

\* C20: a step changes the Map entry or the stored history of a session id
\* only if it is a step of a reset or of a chat request for that id: steps
\* for one session leave every other session as it was, whatever interleaves.
C20_SessionsIndependent ==
    [][\A id \in SessionIds :
          (\/ sessionStore'[id] # sessionStore[id]
           \/ Stored(sessionStore', heap', id) # Stored(sessionStore, heap, id)) =>
              /\ StepFor(id)
              /\ \A o \in SessionIds \ {id} : ~StepFor(o)]_vars

C20_Witness ==
    \E id \in SessionIds, r \in Reqs :
        /\ last.op = "reset" /\ last.status = 200 /\ last.existed
        /\ last.sessionId # JsId(id)
        /\ Active(reqs[r]) /\ reqs[r].body.sessionId = JsId(id)
        /\ sessionStore[id] = reqs[r].session
        /\ Len(heap[reqs[r].session]) = 2 * MAX_TURNS

====
